---- MODULE Spec2Model ----
(***************************************************************************)
(* Model of simulstream's sliding-window retranslation unit                *)
(* (HFSlidingWindowRetranslator), of the pooled HTTP speech processor      *)
(* server (SpeechProcessorSessionManager and its request handlers), of     *)
(* its client-side proxy (HttpProxySpeechProcessor) and of the websocket   *)
(* connection handler (handle_connection).                                 *)
(*                                                                         *)
(* Texts are sequences of one-character strings; a token is the sequence   *)
(* of its characters, "_" being the word-boundary mark of the tokenizer.   *)
(***************************************************************************)
EXTENDS Integers, Sequences, FiniteSets, TLC

VARIABLES
    text_history,        \* unit -> None | token list         (base.py:30)
    audio_history,       \* unit -> None | sample list        (base.py:29)
    lang_tag_id,         \* unit -> None | language tag       (base.py:28)
    matching_threshold,  \* <<num, den>> of the configured threshold
    last_call,           \* None | record of the last process_chunk call
    transcript,          \* the client's running transcript of one stream
    nsteps,              \* process_chunk calls of the stream since reset
    audio_sent,          \* the samples the stream passed to process_chunk since reset
    _sessions,           \* list of [id, unit], in dict insertion order
    _last_access,        \* session id -> time of its last get()
    available,           \* queue of the units no session holds
    now,                 \* the clock, time.time()
    rpc,                 \* position of the reaper thread in _cleanup
    rnow,                \* _cleanup's local `now` (0 while it sleeps)
    rsleep,              \* time at which the reaper went to sleep (0 while awake)
    expired,             \* _cleanup's local list `expired`
    hpc,                 \* handler thread -> position
    hreq,                \* handler thread -> request being served
    hunit,               \* handler thread -> unit returned by get()
    inbox,               \* frames the client has sent and handle_connection has not yet taken
    nframes,             \* frames the client has sent on the connection
    nbytes,              \* audio bytes the client has sent; byte k of the stream is the number k
    wpc,                 \* position of handle_connection
    client_buffer,       \* handle_connection's client_buffer     (websocket_server.py:80)
    sample_rate,         \* handle_connection's sample_rate       (websocket_server.py:83)
    response,            \* None | the response handle_connection is about to send
    sent,                \* frames sent to the client, in order
    received,            \* audio bytes handle_connection has taken from the connection
    buffer_ctx,          \* for each byte of client_buffer, the rate and language declared when it was taken
    steps,               \* the process_audio calls of the connection, in order
    eos_frames,          \* the end_of_stream values of the control frames taken so far
    error_log,           \* "Invalid string message" errors logged: the index of each ignored frame
    session_id,          \* proxy -> its session id  (http_proxy_speech_processor.py:45)
    _cached_speech_chunk_size,  \* proxy -> None | the memoized chunk size  (line 46)
    chunk_requests,      \* proxy -> GET speech_chunk_size requests it has issued
    chunk_reads,         \* proxy -> reads of its speech_chunk_size property
    segmenter,           \* None | the CJSegmenter of a char-level scorer  (mwersegmenter.py:63)
    samples,             \* the list `samples` passed to score(), with its reference lists
    spos,                \* index of the sample the loop of score() is at
    resegmented_samples, \* score()'s list `resegmented_samples`
    score_outcome,       \* "idle" | "running" | "returned" | the exception score() raised
    hwave,               \* handler thread -> None | the local `waveform` of _preprocess
    hprev                \* handler thread -> None | the text_history _build_incremental_outputs read

unitvars == <<text_history, audio_history, lang_tag_id, matching_threshold, last_call>>
clientvars == <<transcript, nsteps, audio_sent>>
poolvars == <<_sessions, _last_access, available>>
reapervars == <<rpc, rnow, rsleep, expired>>
handlervars == <<hpc, hreq, hunit>>
wsvars == <<inbox, nframes, nbytes, wpc, client_buffer, sample_rate, response, sent,
            received, buffer_ctx, steps, eos_frames, error_log>>
proxyvars == <<session_id, _cached_speech_chunk_size, chunk_requests, chunk_reads>>
scorervars == <<segmenter, samples, spos, resegmented_samples, score_outcome>>
localvars == <<hwave, hprev>>
vars == <<text_history, audio_history, lang_tag_id, matching_threshold, last_call,
          transcript, nsteps, audio_sent, _sessions, _last_access, available, now,
          rpc, rnow, rsleep, expired, hpc, hreq, hunit,
          inbox, nframes, nbytes, wpc, client_buffer, sample_rate, response, sent,
          received, buffer_ctx, steps, eos_frames, error_log,
          session_id, _cached_speech_chunk_size, chunk_requests, chunk_reads,
          segmenter, samples, spos, resegmented_samples, score_outcome, hwave, hprev>>

\* Python's None and a present value x
None == <<>>
Some(x) == <<x>>
Val(o) == o[1]

\* ---------------------------------------------------------------- bounds
MaxTokens == 3        \* longest token list of a window, reconciliation of two windows
ReconSteps == 2       \* windows of a reconciliation: the previous and the new one
MaxStreamTokens == 2  \* longest token list of a window of a longer stream
MaxSteps == 3         \* windows of a longer stream
MaxChunk == 1         \* samples of one waveform chunk
PoolSize == 2         \* size of the pool, N
NumSessionIds == 3    \* distinct session ids of the clients
NumHandlers == 1      \* concurrent request handler threads
MaxTime == 2          \* last clock value
MaxFrames == 4        \* frames a client sends on one websocket connection
MaxFrameSamples == 1  \* 16-bit samples of one binary frame
MaxReads == 3         \* reads of the speech_chunk_size property of one proxy
NumReaders == 1       \* proxies whose speech_chunk_size property is read
NumThreads == 2       \* handler threads serving requests at the same time
MaxRefLines == 2      \* reference lines of one scoring sample
MaxSamples == 2       \* samples of one batch passed to score()
MaxAudioChunk == 3    \* samples of one chunk of a stream of distinguishable samples
MaxAudioSteps == 3    \* chunks of such a stream

\* ------------------------------------------------------------- constants
window_len == 2       \* samples the audio history keeps
TTL == 1              \* idle time after which a session is reaped

SAMPLE_RATE == 16000  \* samples per second the units expect
\* server_config.speech_processing_frequency, in seconds, as <<num, den>>
speech_processing_frequency == <<1, 8000>>

Units == 1..PoolSize
SessionIds == 1..NumSessionIds
Handlers == 1..NumHandlers
Proxies == 1..NumSessionIds
Readers == 1..NumReaders
Threads == 1..NumThreads

\* ------------------------------------------------------------- tokenizer
TokA == <<"_", "a">>
TokC == <<"b">>
Tokens == {TokA, TokC, <<"_">>}
Languages == {"en"}

RECURSIVE SeqsUpTo(_, _)
SeqsUpTo(S, n) ==
    IF n = 0 THEN {<<>>}
    ELSE LET shorter == SeqsUpTo(S, n - 1)
         IN shorter \cup {Append(s, x) : s \in {t \in shorter : Len(t) = n - 1}, x \in S}

TokenLists == SeqsUpTo(Tokens, MaxTokens)
Waveforms == SeqsUpTo({0}, MaxChunk) \ {<<>>}

RECURSIVE Join(_)
Join(tokens) == IF tokens = <<>> THEN <<>> ELSE Head(tokens) \o Join(Tail(tokens))

RECURSIVE LStrip(_)
LStrip(s) == IF s # <<>> /\ Head(s) = " " THEN LStrip(Tail(s)) ELSE s

RECURSIVE RStrip(_)
RStrip(s) == IF s # <<>> /\ s[Len(s)] = " " THEN RStrip(SubSeq(s, 1, Len(s) - 1)) ELSE s

\* tokenizer.convert_tokens_to_string of a sentencepiece tokenizer:
\* "".join(tokens).replace("_", " ").strip()
convert_tokens_to_string(tokens) ==
    LET joined == Join(tokens)
        spaced == [i \in 1..Len(joined) |-> IF joined[i] = "_" THEN " " ELSE joined[i]]
    IN RStrip(LStrip(spaced))

\* ---------------------------------------------------------------- python
\* s[i:] for 0 <= i
SliceFrom(s, i) == SubSeq(s, i + 1, Len(s))

\* s[-i:] for 1 <= i
LastN(s, i) == IF i >= Len(s) THEN s ELSE SubSeq(s, Len(s) - i + 1, Len(s))

endswith(string, suffix) ==
    /\ Len(suffix) <= Len(string)
    /\ SubSeq(string, Len(string) - Len(suffix) + 1, Len(string)) = suffix

Min(S) == CHOOSE x \in S : \A y \in S : x <= y
Max(S) == CHOOSE x \in S : \A y \in S : x >= y

\* difflib.SequenceMatcher(None, a, b).find_longest_match(): the longest block
\* a[i:i+k] == b[j:j+k]; of the longest blocks the one starting earliest in a,
\* and of those the one starting earliest in b; (0, 0, 0) when nothing matches.
\* (The autojunk heuristic needs len(b) >= 200 and no junk function is given.)
IsBlock(a, b, i, j, k) ==
    /\ i + k <= Len(a)
    /\ j + k <= Len(b)
    /\ SubSeq(a, i + 1, i + k) = SubSeq(b, j + 1, j + k)

find_longest_match_latest_b(a, b) ==
    LET sizes == {k \in 0..Len(a) : \E i \in 0..Len(a), j \in 0..Len(b) : IsBlock(a, b, i, j, k)}
        size == Max(sizes)
    IN IF size = 0 THEN [a |-> 0, b |-> 0, size |-> 0]
       ELSE LET i == Min({x \in 0..Len(a) : \E j \in 0..Len(b) : IsBlock(a, b, x, j, size)})
                j == Max({y \in 0..Len(b) : IsBlock(a, b, i, y, size)})
            IN [a |-> i, b |-> j, size |-> size]

find_longest_match(a, b) ==
    LET sizes == {k \in 0..Len(a) : \E i \in 0..Len(a), j \in 0..Len(b) : IsBlock(a, b, i, j, k)}
        size == Max(sizes)
    IN IF size = 0 THEN [a |-> 0, b |-> 0, size |-> 0]
       ELSE LET i == Min({x \in 0..Len(a) : \E j \in 0..Len(b) : IsBlock(a, b, x, j, size)})
                j == Min({y \in 0..Len(b) : IsBlock(a, b, i, y, size)})
            IN [a |-> i, b |-> j, size |-> size]

\* --------------------------------------------- HFSlidingWindowRetranslator
RECURSIVE ending_tokens_from(_, _, _)
ending_tokens_from(string, tokens, i) ==
    IF i < Len(tokens)
    THEN IF ~endswith(string, convert_tokens_to_string(LastN(tokens, i)))
         THEN (IF i = 1 THEN tokens ELSE LastN(tokens, i - 1))   \* tokens[-i + 1:]
         ELSE ending_tokens_from(string, tokens, i + 1)
    ELSE tokens

get_ending_tokens_for_string(string, tokens) == ending_tokens_from(string, tokens, 1)

\* line 85: the unit has no previous output
IsFirstWindowNoneOnly(history) == history = None
IsFirstWindow(history) == history = None \/ Len(Val(history)) = 0

\* line 95: size >= matching_threshold * len(new_string), the threshold being
\* num/den (the float product differs from the rational one only for texts of
\* 30 characters and more)
MeetsThresholdStrict(size, thr, len) == size * thr[2] > thr[1] * len
MeetsThreshold(size, thr, len) == size * thr[2] >= thr[1] * len

\* line 96: new_string[longest_match.b + longest_match.size:]
NewTailFromA(new_string, m) == SliceFrom(new_string, m.a + m.size)
NewTail(new_string, m) == SliceFrom(new_string, m.b + m.size)

\* line 97: previous_string[longest_match.a + longest_match.size:]
DeletedTailHead(previous_string, m) == SubSeq(previous_string, 1, m.a + m.size)
DeletedTailFromMatch(previous_string, m) == SliceFrom(previous_string, m.a)
DeletedTail(previous_string, m) == SliceFrom(previous_string, m.a + m.size)

IncrementalOutput(nt, ns, dt, ds) ==
    [new_tokens |-> nt, new_string |-> ns, deleted_tokens |-> dt, deleted_string |-> ds]

\* lines 98-101: the tokens of the new tail
NewTokens(new_tail, generated_tokens) ==
    IF new_tail = <<>> THEN <<>>
    ELSE get_ending_tokens_for_string(new_tail, generated_tokens)

\* lines 102-106: the tokens of the deleted tail, taken from the text history
DeletedTokensOfGenerated(deleted_string, history, generated_tokens) ==
    IF deleted_string = <<>> THEN <<>>
    ELSE get_ending_tokens_for_string(deleted_string, generated_tokens)
DeletedTokens(deleted_string, history, generated_tokens) ==
    IF deleted_string = <<>> THEN <<>>
    ELSE get_ending_tokens_for_string(deleted_string, history)

_build_incremental_outputs(history, thr, generated_tokens) ==
    LET new_string == convert_tokens_to_string(generated_tokens)
    IN IF IsFirstWindow(history)
       THEN IncrementalOutput(generated_tokens, new_string, <<>>, <<>>)
       ELSE LET previous_string == convert_tokens_to_string(Val(history))
                longest_match == find_longest_match(previous_string, new_string)
            IN IF MeetsThreshold(longest_match.size, thr, Len(new_string))
               THEN LET new_tail == NewTail(new_string, longest_match)
                        deleted_string == DeletedTail(previous_string, longest_match)
                    IN IncrementalOutput(
                           NewTokens(new_tail, generated_tokens),
                           new_tail,
                           DeletedTokens(deleted_string, Val(history), generated_tokens),
                           deleted_string)
               ELSE IncrementalOutput(generated_tokens, new_string, <<>>, <<>>)

\* the audio history after _preprocess(waveform)
_preprocessAmortized(history, waveform) ==
    LET joined == IF history # None THEN Val(history) \o waveform ELSE waveform
    IN Some(IF Len(joined) > 2 * window_len THEN LastN(joined, window_len) ELSE joined)
_preprocess(history, waveform) ==
    LET joined == IF history # None THEN Val(history) \o waveform ELSE waveform
    IN Some(IF Len(joined) > window_len THEN LastN(joined, window_len) ELSE joined)

\* BaseSpeechProcessor.process_chunk on unit u; generated_tokens is what the
\* model decodes from the window
process_chunk(u, waveform, generated_tokens) ==
    LET new_output == _build_incremental_outputs(
                          text_history[u], matching_threshold, generated_tokens)
    IN /\ audio_history' = [audio_history EXCEPT ![u] = _preprocess(@, waveform)]
       /\ text_history' = [text_history EXCEPT ![u] = Some(generated_tokens)]
       /\ last_call' = Some([unit |-> u, previous |-> text_history[u],
                             generated |-> generated_tokens, output |-> new_output])
       /\ UNCHANGED <<lang_tag_id, matching_threshold>>

\* the unit memory after clear()
ClearedTextKept(th, u) == th
ClearedText(th, u) == [th EXCEPT ![u] = None]
ClearedAudio(ah, u) == [ah EXCEPT ![u] = None]
ClearedLang(lt, u) == [lt EXCEPT ![u] = None]

set_language(u, language) ==
    /\ lang_tag_id' = [lang_tag_id EXCEPT ![u] = Some(language)]
    /\ UNCHANGED <<text_history, audio_history, matching_threshold, last_call>>

\* ------------------------------------------- SpeechProcessorSessionManager
\* lines 57-59: the queue holds `size` units
InitialQueueOneMore(size) == [i \in 1..(size + 1) |-> i]
InitialQueue(size) == [i \in 1..size |-> i]

\* the keys of the dict _sessions, and the unit a key maps to
SessionKeys(sessions) == {sessions[i].id : i \in 1..Len(sessions)}
UnitOf(sessions, sid) == sessions[CHOOSE i \in 1..Len(sessions) : sessions[i].id = sid].unit

\* get(), line 72: available.get_nowait() raises queue.Empty
GetFails(sessions, avail, sid) == sid \notin SessionKeys(sessions) /\ avail = <<>>

\* get(), lines 71-72
SessionsAfterGetRebind(sessions, avail, sid) ==
    IF sid \notin SessionKeys(sessions) \/ avail # <<>>
    THEN Append(SelectSeq(sessions, LAMBDA r : r.id # sid), [id |-> sid, unit |-> Head(avail)])
    ELSE sessions
SessionsAfterGet(sessions, avail, sid) ==
    IF sid \notin SessionKeys(sessions)
    THEN Append(sessions, [id |-> sid, unit |-> Head(avail)])
    ELSE sessions

AvailableAfterGetAlways(sessions, avail, sid) == IF avail # <<>> THEN Tail(avail) ELSE avail
AvailableAfterGet(sessions, avail, sid) ==
    IF sid \notin SessionKeys(sessions) THEN Tail(avail) ELSE avail

\* get(), line 76, reached only when line 72 did not raise
LastAccessAfterGet(la, sid, t) == [la EXCEPT ![sid] = Some(t)]
LastAccessAfterFailedGetRefreshed(la, sid, t) == [la EXCEPT ![sid] = Some(t)]
LastAccessAfterFailedGet(la, sid, t) == la

\* close_session(), line 86: _sessions.pop(session_id)
SessionsAfterCloseKept(sessions, sid) == sessions
SessionsAfterClose(sessions, sid) == SelectSeq(sessions, LAMBDA r : r.id # sid)

\* close_session(), line 88: available.put_nowait(speech_processor)
AvailableAfterCloseLeak(sessions, avail, sid) == avail
AvailableAfterClose(sessions, avail, sid) ==
    IF sid \in SessionKeys(sessions) THEN Append(avail, UnitOf(sessions, sid)) ELSE avail

\* close_session(session_id), all of it under the lock
close_session(sid) ==
    /\ IF sid \in SessionKeys(_sessions)
       THEN LET speech_processor == UnitOf(_sessions, sid)
            IN /\ text_history' = ClearedText(text_history, speech_processor)
               /\ audio_history' = ClearedAudio(audio_history, speech_processor)
               /\ lang_tag_id' = ClearedLang(lang_tag_id, speech_processor)
       ELSE UNCHANGED <<text_history, audio_history, lang_tag_id>>
    /\ _sessions' = SessionsAfterClose(_sessions, sid)
    /\ available' = AvailableAfterClose(_sessions, available, sid)
    /\ _last_access' = [_last_access EXCEPT ![sid] = None]
    /\ UNCHANGED <<matching_threshold, last_call>>

\* _cleanup(), lines 102-103
IsExpiredSignSlip(la, sid, t) == la[sid] = None \/ Val(la[sid]) - t > TTL
IsExpired(la, sid, t) == la[sid] = None \/ t - Val(la[sid]) > TTL

\* _cleanup(), lines 99-104: the expired ids, in the order of _sessions.keys()
ExpiredOfNothing(sessions, la, t) == <<>>
ExpiredOf(sessions, la, t) ==
    LET ids == [i \in 1..Len(sessions) |-> sessions[i].id]
    IN SelectSeq(ids, LAMBDA sid : IsExpired(la, sid, t))

\* ------------------------------------------------------------ initial state
\* BaseSpeechProcessor.__init__ and HFSlidingWindowRetranslator.__init__
InitUnits ==
    /\ text_history = [u \in Units |-> None]
    /\ audio_history = [u \in Units |-> None]
    /\ lang_tag_id = [u \in Units |-> None]
    /\ matching_threshold \in {<<1, 10>>, <<1, 2>>}    \* 0.1 (the default) and 0.5
    /\ last_call = None

InitClient ==
    /\ transcript = <<>>
    /\ nsteps = 0
    /\ audio_sent = <<>>

\* SpeechProcessorSessionManager.__init__
InitPool ==
    /\ _sessions = <<>>
    /\ _last_access = [s \in SessionIds |-> None]
    /\ available = InitialQueue(PoolSize)
    /\ now = 0
    /\ rpc = "sleep"
    /\ rnow = 0
    /\ rsleep = 0
    /\ expired = <<>>
    /\ hpc = [h \in Handlers |-> "idle"]
    /\ hreq = [h \in Handlers |-> None]
    /\ hunit = [h \in Handlers |-> None]

\* the locals of handle_connection when the connection is accepted
InitWs ==
    /\ inbox = <<>>
    /\ nframes = 0
    /\ nbytes = 0
    /\ wpc = "recv"
    /\ client_buffer = <<>>
    /\ sample_rate = SAMPLE_RATE
    /\ response = None
    /\ sent = <<>>
    /\ received = <<>>
    /\ buffer_ctx = <<>>
    /\ steps = <<>>
    /\ eos_frames = <<>>
    /\ error_log = <<>>

\* HttpProxySpeechProcessor.__init__ of every proxy: uuid4 gives each proxy an
\* id of its own
InitProxy ==
    /\ session_id = [p \in Proxies |-> p]
    /\ _cached_speech_chunk_size = [p \in Proxies |-> None]
    /\ chunk_requests = [p \in Proxies |-> 0]
    /\ chunk_reads = [p \in Proxies |-> 0]

\* no scorer is at work
InitScorer ==
    /\ segmenter = None
    /\ samples = <<>>
    /\ spos = 1
    /\ resegmented_samples = <<>>
    /\ score_outcome = "idle"

\* no handler thread is inside process_chunk
InitLocals ==
    /\ hwave = [h \in Threads |-> None]
    /\ hprev = [h \in Threads |-> None]

Init == InitUnits /\ InitClient /\ InitPool /\ InitWs /\ InitProxy /\ InitScorer /\ InitLocals

\* ------------------------------------------- one stream on a unit of its own
\* The client of a stream applies a delta to its transcript: it removes
\* deleted_string from the end, then appends new_string.
ApplyDelta(text, output) ==
    LET kept == IF endswith(text, output.deleted_string)
                THEN SubSeq(text, 1, Len(text) - Len(output.deleted_string))
                ELSE text
    IN kept \o output.new_string

StreamUnit == 1

\* a window of the stream goes through process_chunk; the client applies the delta
StreamProcess(waveform, generated_tokens) ==
    /\ process_chunk(StreamUnit, waveform, generated_tokens)
    /\ transcript' = ApplyDelta(transcript, Val(last_call').output)
    /\ nsteps' = nsteps + 1
    /\ audio_sent' = audio_sent \o waveform
    /\ UNCHANGED <<poolvars, now, reapervars, handlervars, wsvars, proxyvars, scorervars, localvars>>

\* the stream ends: the unit is cleared; the next stream starts a new transcript
\* and a new record of calls
StreamClear ==
    /\ text_history' = ClearedText(text_history, StreamUnit)
    /\ audio_history' = ClearedAudio(audio_history, StreamUnit)
    /\ lang_tag_id' = ClearedLang(lang_tag_id, StreamUnit)
    /\ transcript' = <<>>
    /\ nsteps' = 0
    /\ audio_sent' = <<>>
    /\ last_call' = None
    /\ UNCHANGED <<matching_threshold, poolvars, now, reapervars, handlervars, wsvars, proxyvars, scorervars, localvars>>

StreamSetLanguage(language) ==
    /\ set_language(StreamUnit, language)
    /\ UNCHANGED <<clientvars, poolvars, now, reapervars, handlervars, wsvars, proxyvars, scorervars, localvars>>

\* two successive windows of any content
NextRecon ==
    \/ \E w \in Waveforms, g \in TokenLists : nsteps < ReconSteps /\ StreamProcess(w, g)
    \/ StreamClear
    \/ \E l \in Languages : StreamSetLanguage(l)

SpecRecon == Init /\ [][NextRecon]_vars

\* longer streams of shorter windows
NextStream ==
    \/ \E w \in Waveforms, g \in SeqsUpTo(Tokens, MaxStreamTokens) :
           nsteps < MaxSteps /\ StreamProcess(w, g)
    \/ StreamClear
    \/ \E l \in Languages : StreamSetLanguage(l)

SpecStream == Init /\ [][NextStream]_vars

\* two successive windows over a vocabulary with a token of two letters
NextLongTokens ==
    \/ \E w \in Waveforms, g \in SeqsUpTo({TokA, <<"_", "a", "b">>, TokC}, MaxStreamTokens) :
           nsteps < ReconSteps /\ StreamProcess(w, g)
    \/ StreamClear

SpecLongTokens == Init /\ [][NextLongTokens]_vars

\* --------------------------------------------- HttpSpeechProcessorHandler
Operations == {"process_chunk", "clear"}
PoolWaveform == <<0>>
PoolTokens == <<TokA>>

\* a request arrives and a handler thread of the ThreadingHTTPServer takes it
Receive(h, op, sid) ==
    /\ hpc[h] = "idle"
    /\ hreq' = [hreq EXCEPT ![h] = Some([op |-> op, session_id |-> sid])]
    /\ hpc' = [hpc EXCEPT ![h] = IF op = "clear" THEN "is_active" ELSE "get"]
    /\ UNCHANGED <<hunit, unitvars, clientvars, poolvars, now, reapervars, wsvars, scorervars, localvars>>

\* post_process_chunk, line 151: speech_processor_manager.get(session_id)
HandlerGet(h) ==
    /\ hpc[h] = "get"
    /\ LET sid == Val(hreq[h]).session_id
       IN IF GetFails(_sessions, available, sid)
          THEN /\ _last_access' = LastAccessAfterFailedGet(_last_access, sid, now)
               /\ hpc' = [hpc EXCEPT ![h] = "raised"]
               /\ UNCHANGED <<_sessions, available, hunit, hreq>>
          ELSE /\ _sessions' = SessionsAfterGet(_sessions, available, sid)
               /\ available' = AvailableAfterGet(_sessions, available, sid)
               /\ _last_access' = LastAccessAfterGet(_last_access, sid, now)
               /\ hunit' = [hunit EXCEPT ![h] = Some(UnitOf(_sessions', sid))]
               /\ hpc' = [hpc EXCEPT ![h] = "run"]
               /\ UNCHANGED hreq
    /\ UNCHANGED <<unitvars, clientvars, now, reapervars, wsvars, proxyvars, scorervars, localvars>>

\* post_process_chunk, lines 152-159: the unit is invoked outside the lock
HandlerProcessChunk(h) ==
    /\ hpc[h] = "run"
    /\ Val(hreq[h]).op = "process_chunk"
    /\ process_chunk(Val(hunit[h]), PoolWaveform, PoolTokens)
    /\ hpc' = [hpc EXCEPT ![h] = "idle"]
    /\ hreq' = [hreq EXCEPT ![h] = None]
    /\ hunit' = [hunit EXCEPT ![h] = None]
    /\ UNCHANGED <<clientvars, poolvars, now, reapervars, wsvars, proxyvars, scorervars, localvars>>

\* an exception (queue.Empty of get(), AttributeError of do_GET/do_POST/do_PUT)
\* leaves the handler: the server logs the error and drops the request without
\* a response
HandlerAbort(h) ==
    /\ hpc[h] = "raised"
    /\ hpc' = [hpc EXCEPT ![h] = "idle"]
    /\ hreq' = [hreq EXCEPT ![h] = None]
    /\ UNCHANGED <<hunit, unitvars, clientvars, poolvars, now, reapervars, wsvars, proxyvars, scorervars, localvars>>

\* post_clear, line 182: is_active(session_id)
HandlerIsActive(h) ==
    /\ hpc[h] = "is_active"
    /\ IF Val(hreq[h]).session_id \in SessionKeys(_sessions)
       THEN /\ hpc' = [hpc EXCEPT ![h] = "close"]
            /\ UNCHANGED hreq
       ELSE /\ hpc' = [hpc EXCEPT ![h] = "idle"]
            /\ hreq' = [hreq EXCEPT ![h] = None]
    /\ UNCHANGED <<hunit, unitvars, clientvars, poolvars, now, reapervars, wsvars, proxyvars, scorervars, localvars>>

\* post_clear, lines 183-184: close_session(session_id)
HandlerClose(h) ==
    /\ hpc[h] = "close"
    /\ close_session(Val(hreq[h]).session_id)
    /\ hpc' = [hpc EXCEPT ![h] = "idle"]
    /\ hreq' = [hreq EXCEPT ![h] = None]
    /\ UNCHANGED <<hunit, clientvars, now, reapervars, wsvars, proxyvars, scorervars, localvars>>

\* ------------------------------------------------------------ the reaper
\* _cleanup, lines 97-98: time.sleep(ttl) returns; now = time.time()
ReaperWake ==
    /\ rpc = "sleep"
    /\ now >= rsleep + TTL
    /\ rnow' = now
    /\ rpc' = "scan"
    /\ rsleep' = 0
    /\ UNCHANGED <<expired, unitvars, clientvars, poolvars, now, handlervars, wsvars, proxyvars, scorervars, localvars>>

\* _cleanup, lines 99-104: the scan, under the lock
ReaperScan ==
    /\ rpc = "scan"
    /\ expired' = ExpiredOf(_sessions, _last_access, rnow)
    /\ rpc' = "close"
    /\ UNCHANGED <<rnow, rsleep, unitvars, clientvars, poolvars, now, handlervars, wsvars, proxyvars, scorervars, localvars>>

\* _cleanup, lines 106-107: close_session of the next expired id
ReaperClose ==
    /\ rpc = "close"
    /\ expired # <<>>
    /\ close_session(Head(expired))
    /\ expired' = Tail(expired)
    /\ UNCHANGED <<rpc, rnow, rsleep, clientvars, now, handlervars, wsvars, proxyvars, scorervars, localvars>>

\* _cleanup, line 96: the pass is over, the loop goes back to sleep
ReaperSleep ==
    /\ rpc = "close"
    /\ expired = <<>>
    /\ rpc' = "sleep"
    /\ rsleep' = now
    /\ rnow' = 0
    /\ UNCHANGED <<expired, unitvars, clientvars, poolvars, now, handlervars, wsvars, proxyvars, scorervars, localvars>>

\* time passes
Tick ==
    /\ now < MaxTime
    /\ now' = now + 1
    /\ UNCHANGED <<unitvars, clientvars, poolvars, reapervars, handlervars, wsvars, proxyvars, scorervars, localvars>>

\* a client sends a request with the session id of its proxy
ClientRequest(h, op, p) ==
    /\ Receive(h, op, session_id[p])
    /\ UNCHANGED proxyvars

NextPool ==
    \/ \E h \in Handlers, op \in Operations, p \in Proxies : ClientRequest(h, op, p)
    \/ \E h \in Handlers : HandlerGet(h)
    \/ \E h \in Handlers : HandlerProcessChunk(h)
    \/ \E h \in Handlers : HandlerAbort(h)
    \/ \E h \in Handlers : HandlerIsActive(h)
    \/ \E h \in Handlers : HandlerClose(h)
    \/ ReaperWake
    \/ ReaperScan
    \/ ReaperClose
    \/ ReaperSleep
    \/ Tick

InitPoolSpec == Init /\ matching_threshold = <<1, 10>>

SpecPool == InitPoolSpec /\ [][NextPool]_vars

\* a stream of chunks of distinguishable samples, shorter and longer than the
\* window; the model decodes the same token from every window
NextAudio ==
    \/ \E w \in SeqsUpTo({0, 1}, MaxAudioChunk) \ {<<>>} :
           nsteps < MaxAudioSteps /\ StreamProcess(w, <<TokA>>)
    \/ StreamClear

SpecAudio == InitPoolSpec /\ [][NextAudio]_vars

\* ------------------------------------------------- the proxies of the pool
\* processor.speech_chunk_size of the units of the pool, all built from one config
speech_chunk_size == 1

ProxyOf(sid) == CHOOSE p \in Proxies : session_id[p] = sid

\* urlopen blocks the caller: a proxy has at most one request in flight
InFlight(p) ==
    \E h \in Handlers : hreq[h] # None /\ Val(hreq[h]).session_id = session_id[p]

\* line 73: `if self._cached_speech_chunk_size is None`
CacheMissAlways(cached) == TRUE
CacheMiss(cached) == cached = None

\* lines 73 and 78: the property is read and the cache holds a value
ProxyReadCached(p) ==
    /\ ~InFlight(p)
    /\ chunk_reads[p] < MaxReads
    /\ ~CacheMiss(_cached_speech_chunk_size[p])
    /\ chunk_reads' = [chunk_reads EXCEPT ![p] = @ + 1]
    /\ UNCHANGED <<session_id, _cached_speech_chunk_size, chunk_requests>>
    /\ UNCHANGED <<unitvars, clientvars, poolvars, now, reapervars, handlervars, wsvars, scorervars, localvars>>

\* lines 73-76: the property is read and the cache is empty; the GET request
\* goes to a handler thread of the server
ProxyReadRequest(p, h) ==
    /\ ~InFlight(p)
    /\ chunk_reads[p] < MaxReads
    /\ CacheMiss(_cached_speech_chunk_size[p])
    /\ Receive(h, "speech_chunk_size", session_id[p])
    /\ chunk_reads' = [chunk_reads EXCEPT ![p] = @ + 1]
    /\ chunk_requests' = [chunk_requests EXCEPT ![p] = @ + 1]
    /\ UNCHANGED <<session_id, _cached_speech_chunk_size>>

\* get_speech_chunk_size, line 148, and line 77 of the proxy: the response
\* carries the chunk size of the unit and the proxy stores it
HandlerChunkSize(h) ==
    /\ hpc[h] = "run"
    /\ Val(hreq[h]).op = "speech_chunk_size"
    /\ _cached_speech_chunk_size' =
           [_cached_speech_chunk_size EXCEPT ![ProxyOf(Val(hreq[h]).session_id)] =
                Some(speech_chunk_size)]
    /\ hpc' = [hpc EXCEPT ![h] = "idle"]
    /\ hreq' = [hreq EXCEPT ![h] = None]
    /\ hunit' = [hunit EXCEPT ![h] = None]
    /\ UNCHANGED <<session_id, chunk_requests, chunk_reads>>
    /\ UNCHANGED <<unitvars, clientvars, poolvars, now, reapervars, wsvars, scorervars, localvars>>

\* process_chunk and clear of the proxy, lines 80-85 and 105-108
ProxyCall(p, h, op) ==
    /\ ~InFlight(p)
    /\ Receive(h, op, session_id[p])
    /\ UNCHANGED proxyvars

NextProxy ==
    \/ \E p \in Readers : ProxyReadCached(p)
    \/ \E p \in Readers, h \in Handlers : ProxyReadRequest(p, h)
    \/ \E p \in Proxies, h \in Handlers, op \in Operations : ProxyCall(p, h, op)
    \/ \E h \in Handlers : HandlerGet(h)
    \/ \E h \in Handlers : HandlerChunkSize(h)
    \/ \E h \in Handlers : HandlerProcessChunk(h)
    \/ \E h \in Handlers : HandlerAbort(h)
    \/ \E h \in Handlers : HandlerIsActive(h)
    \/ \E h \in Handlers : HandlerClose(h)

SpecProxy == InitPoolSpec /\ [][NextProxy]_vars

\* ------------------------------------ requests served at the same time
\* ThreadingHTTPServer gives every request a thread of its own. get(),
\* is_active() and close_session() run under the manager's lock; the unit is
\* invoked outside it (lines 151-153), so the statements of process_chunk of
\* one thread interleave with those of the others.

\* post_process_chunk, lines 151-152: nothing stands between the return of
\* get() and the call of the unit, whoever else is using the unit
MayInvokeWhenFree(h, u) ==
    \A g \in Threads \ {h} :
        ~(hunit[g] = Some(u) /\ hpc[g] \in {"audio", "text", "update"})
MayInvoke(h, u) == TRUE

\* _preprocess, lines 63-67: the audio history is read and the window built
HandlerAudioRead(h) ==
    /\ hpc[h] = "run"
    /\ Val(hreq[h]).op = "process_chunk"
    /\ MayInvoke(h, Val(hunit[h]))
    /\ hwave' = [hwave EXCEPT ![h] = _preprocess(audio_history[Val(hunit[h])], PoolWaveform)]
    /\ hpc' = [hpc EXCEPT ![h] = "audio"]
    /\ UNCHANGED <<hreq, hunit, hprev>>
    /\ UNCHANGED <<unitvars, clientvars, poolvars, now, reapervars, wsvars, proxyvars,
                   scorervars>>

\* _preprocess, line 68: the window becomes the audio history
HandlerAudioWrite(h) ==
    /\ hpc[h] = "audio"
    /\ audio_history' = [audio_history EXCEPT ![Val(hunit[h])] = hwave[h]]
    /\ hwave' = [hwave EXCEPT ![h] = None]
    /\ hpc' = [hpc EXCEPT ![h] = "text"]
    /\ UNCHANGED <<hreq, hunit, hprev>>
    /\ UNCHANGED <<text_history, lang_tag_id, matching_threshold, last_call>>
    /\ UNCHANGED <<clientvars, poolvars, now, reapervars, wsvars, proxyvars, scorervars>>

\* _generate and _build_incremental_outputs, lines 84-116: the text history is read
HandlerTextRead(h) ==
    /\ hpc[h] = "text"
    /\ hprev' = [hprev EXCEPT ![h] = Some(text_history[Val(hunit[h])])]
    /\ hpc' = [hpc EXCEPT ![h] = "update"]
    /\ UNCHANGED <<hreq, hunit, hwave>>
    /\ UNCHANGED <<unitvars, clientvars, poolvars, now, reapervars, wsvars, proxyvars,
                   scorervars>>

\* _update_text_history, line 144, and the response, lines 154-159
HandlerTextWrite(h) ==
    /\ hpc[h] = "update"
    /\ LET u == Val(hunit[h])
           new_output == _build_incremental_outputs(Val(hprev[h]), matching_threshold, PoolTokens)
       IN /\ text_history' = [text_history EXCEPT ![u] = Some(PoolTokens)]
          /\ last_call' = Some([unit |-> u, previous |-> Val(hprev[h]),
                                generated |-> PoolTokens, output |-> new_output])
    /\ hprev' = [hprev EXCEPT ![h] = None]
    /\ hpc' = [hpc EXCEPT ![h] = "idle"]
    /\ hreq' = [hreq EXCEPT ![h] = None]
    /\ hunit' = [hunit EXCEPT ![h] = None]
    /\ UNCHANGED <<hwave, audio_history, lang_tag_id, matching_threshold>>
    /\ UNCHANGED <<clientvars, poolvars, now, reapervars, wsvars, proxyvars, scorervars>>

NextThreaded ==
    \/ \E h \in Threads, op \in Operations, p \in Proxies : ClientRequest(h, op, p)
    \/ \E h \in Threads : HandlerGet(h)
    \/ \E h \in Threads : HandlerAudioRead(h)
    \/ \E h \in Threads : HandlerAudioWrite(h)
    \/ \E h \in Threads : HandlerTextRead(h)
    \/ \E h \in Threads : HandlerTextWrite(h)
    \/ \E h \in Threads : HandlerAbort(h)
    \/ \E h \in Threads : HandlerIsActive(h)
    \/ \E h \in Threads : HandlerClose(h)

\* SpeechProcessorSessionManager.__init__, with the handler threads idle
InitThreadedSpec ==
    /\ InitUnits /\ matching_threshold = <<1, 10>>
    /\ InitClient /\ InitWs /\ InitProxy /\ InitScorer /\ InitLocals
    /\ _sessions = <<>>
    /\ _last_access = [s \in SessionIds |-> None]
    /\ available = InitialQueue(PoolSize)
    /\ now = 0
    /\ rpc = "sleep"
    /\ rnow = 0
    /\ rsleep = 0
    /\ expired = <<>>
    /\ hpc = [h \in Threads |-> "idle"]
    /\ hreq = [h \in Threads |-> None]
    /\ hunit = [h \in Threads |-> None]

SpecThreaded == InitThreadedSpec /\ [][NextThreaded]_vars

\* the requests of one session: the client of proxy 1 sends them without
\* waiting for the responses (the pool is never exhausted by one session, so
\* get() does not raise)
NextSameSession ==
    \/ \E h \in Threads, op \in Operations : ClientRequest(h, op, 1)
    \/ \E h \in Threads : HandlerGet(h)
    \/ \E h \in Threads : HandlerAudioRead(h)
    \/ \E h \in Threads : HandlerAudioWrite(h)
    \/ \E h \in Threads : HandlerTextRead(h)
    \/ \E h \in Threads : HandlerTextWrite(h)
    \/ \E h \in Threads : HandlerIsActive(h)
    \/ \E h \in Threads : HandlerClose(h)

SpecSameSession == InitThreadedSpec /\ [][NextSameSession]_vars

\* ------------------------------------- requests no handler method matches
\* The verbs and paths clients send. BaseHTTPRequestHandler calls do_<verb>
\* when the handler class has it (lines 134-144) and answers
\* send_error(501, "Unsupported method") when it has not.
HandledVerbs == {"GET", "POST", "PUT"}

\* the get_, post_ and put_ methods of the handler class, lines 146-189
HandlerMethods ==
    {<<"GET", "speech_chunk_size">>, <<"POST", "process_chunk">>,
     <<"PUT", "source_language">>, <<"PUT", "target_language">>,
     <<"POST", "end_of_stream">>, <<"POST", "clear">>, <<"GET", "tokens_to_string">>}

\* a request with any verb and path arrives at a handler thread. do_GET,
\* do_POST, do_PUT: getattr(self, "<verb>_" + path) raises AttributeError when
\* the class has no such method; the body is not read
HttpRequest(h, verb, path, sid) ==
    IF verb \in HandledVerbs /\ <<verb, path>> \in HandlerMethods
    THEN Receive(h, path, sid) /\ UNCHANGED proxyvars
    ELSE /\ hpc[h] = "idle"
         /\ hreq' = [hreq EXCEPT ![h] = Some([op |-> "none", session_id |-> sid])]
         /\ hpc' = [hpc EXCEPT ![h] = IF verb \in HandledVerbs THEN "raised" ELSE "unsupported"]
         /\ UNCHANGED <<hunit, unitvars, clientvars, poolvars, now, reapervars, wsvars,
                        proxyvars, scorervars, localvars>>

\* send_error(501) of BaseHTTPRequestHandler for a verb without a do_ method
HandlerSendError(h) ==
    /\ hpc[h] = "unsupported"
    /\ hpc' = [hpc EXCEPT ![h] = "idle"]
    /\ hreq' = [hreq EXCEPT ![h] = None]
    /\ UNCHANGED <<hunit, unitvars, clientvars, poolvars, now, reapervars, wsvars, proxyvars, scorervars, localvars>>

\* The status of the response a handler thread writes when it leaves position
\* pc: _send_json_response(OK, ...) after the unit was invoked (lines 148, 154,
\* 174, 189), _send_json_response(NO_CONTENT) of post_clear (line 184),
\* send_error(501); None when an exception leaves the handler, which writes
\* nothing: socketserver logs the traceback and closes the connection.
ResponseStatus(pc) ==
    CASE pc = "run" -> Some(200)
      [] pc \in {"is_active", "close"} -> Some(204)
      [] pc = "unsupported" -> Some(501)
      [] OTHER -> None

NextHttp ==
    \/ \E h \in Handlers, verb \in {"GET", "POST", "DELETE"},
          path \in Operations \cup {"nothing"}, sid \in SessionIds :
           HttpRequest(h, verb, path, sid)
    \/ \E h \in Handlers : HandlerGet(h)
    \/ \E h \in Handlers : HandlerProcessChunk(h)
    \/ \E h \in Handlers : HandlerAbort(h)
    \/ \E h \in Handlers : HandlerIsActive(h)
    \/ \E h \in Handlers : HandlerClose(h)
    \/ \E h \in Handlers : HandlerSendError(h)

SpecHttp == InitPoolSpec /\ [][NextHttp]_vars

\* ------------------------------------------ one websocket connection, direct mode
\* The unit of the connection is built by handle_connection for itself.
WsUnit == 1
WsTokens == <<TokA>>
ControlRates == {8000, 16000}

\* A frame of the client. A binary frame carries whole 16-bit samples, two
\* bytes each; a text frame is an object in which each of the keys sample_rate,
\* target_lang, end_of_stream is absent (None) or present with a value, or the
\* text of such an object cut short, which does not parse as JSON.
Frame(kind, data, parses, rate, lang, eos) ==
    [kind |-> kind, data |-> data, parses |-> parses,
     sample_rate |-> rate, target_lang |-> lang, end_of_stream |-> eos]
BinaryFrame(first, n) ==
    Frame("bytes", [i \in 1..(2 * n) |-> first + i], TRUE, None, None, None)
TextFrame(parses, rate, lang, eos) == Frame("str", <<>>, parses, rate, lang, eos)
TextFrames ==
    {TextFrame(FALSE, Some(8000), Some(l), Some(TRUE)) : l \in Languages}
    \cup {TextFrame(TRUE, Some(r), None, None) : r \in ControlRates}
    \cup {TextFrame(TRUE, None, Some(l), None) : l \in Languages}
    \cup {TextFrame(TRUE, None, None, Some(b)) : b \in BOOLEAN}
    \cup {TextFrame(TRUE, Some(8000), Some(l), Some(TRUE)) : l \in Languages}

\* line 92-93: len(client_buffer) / 2 / sample_rate >= speech_processing_frequency
ThresholdReachedStrict(buffer, rate) ==
    Len(buffer) * speech_processing_frequency[2] > 2 * rate * speech_processing_frequency[1]
ThresholdReached(buffer, rate) ==
    Len(buffer) * speech_processing_frequency[2] >= 2 * rate * speech_processing_frequency[1]

\* lines 57-61: the bytes become samples, resampled to SAMPLE_RATE when the
\* declared rate differs; the resampled signal has ceil(n * SAMPLE_RATE / rate) samples
ResampledLen(n, rate) == (n * SAMPLE_RATE + rate - 1) \div rate
WsWaveform(buffer, rate) ==
    LET n == Len(buffer) \div 2
    IN [i \in 1..(IF rate # SAMPLE_RATE THEN ResampledLen(n, rate) ELSE n) |-> 0]

\* IncrementalOutput.strings_to_json and the end_of_processing frame
strings_to_json(output) == [new |-> output.new_string, deleted |-> output.deleted_string]
EndOfProcessingAsDelta == [new |-> <<>>, deleted |-> <<>>]
EndOfProcessing == [end_of_processing |-> TRUE]

\* the buffer a process_audio call submits: the whole client_buffer
SubmittedBufferTail(buffer) == Tail(buffer)
SubmittedBuffer(buffer) == buffer

\* process_audio on the current buffer, called from `site`
process_audio(site) ==
    /\ process_chunk(WsUnit, WsWaveform(SubmittedBuffer(client_buffer), sample_rate), WsTokens)
    /\ response' = Some(strings_to_json(Val(last_call').output))
    /\ steps' = Append(steps, [site |-> site,
                               buffer |-> SubmittedBuffer(client_buffer),
                               sample_rate |-> sample_rate,
                               language |-> lang_tag_id[WsUnit],
                               ctx |-> buffer_ctx,
                               response |-> strings_to_json(Val(last_call').output)])

\* the client sends one more frame; the connection delivers frames in order
ClientSend(frame) ==
    /\ nframes < MaxFrames
    /\ nframes' = nframes + 1
    /\ inbox' = Append(inbox, frame)
    /\ nbytes' = nbytes + Len(frame.data)
    /\ UNCHANGED <<wpc, client_buffer, sample_rate, response, sent, received, buffer_ctx,
                   steps, eos_frames, error_log>>
    /\ UNCHANGED <<unitvars, clientvars, poolvars, now, reapervars, handlervars, proxyvars, scorervars, localvars>>

\* lines 87-93: the next message is a binary frame
WsReceiveBytes ==
    /\ wpc = "recv"
    /\ inbox # <<>>
    /\ Head(inbox).kind = "bytes"
    /\ inbox' = Tail(inbox)
    /\ client_buffer' = client_buffer \o Head(inbox).data
    /\ received' = received \o Head(inbox).data
    /\ buffer_ctx' = buffer_ctx \o [i \in 1..Len(Head(inbox).data) |->
                                       [sample_rate |-> sample_rate,
                                        language |-> lang_tag_id[WsUnit]]]
    /\ wpc' = IF ThresholdReached(client_buffer', sample_rate) THEN "process" ELSE "recv"
    /\ UNCHANGED <<nframes, nbytes, sample_rate, response, sent, steps, eos_frames, error_log>>
    /\ UNCHANGED <<unitvars, clientvars, poolvars, now, reapervars, handlervars, proxyvars, scorervars, localvars>>

\* lines 94-100: the buffer has reached the threshold
WsProcess ==
    /\ wpc = "process"
    /\ process_audio("chunk")
    /\ wpc' = "send"
    /\ UNCHANGED <<inbox, nframes, nbytes, client_buffer, sample_rate, sent, received,
                   buffer_ctx, eos_frames, error_log>>
    /\ UNCHANGED <<clientvars, poolvars, now, reapervars, handlervars, proxyvars, scorervars, localvars>>

\* lines 101-102: the delta goes to the client, the buffer is emptied
WsSend ==
    /\ wpc = "send"
    /\ sent' = Append(sent, Val(response))
    /\ response' = None
    /\ client_buffer' = <<>>
    /\ buffer_ctx' = <<>>
    /\ wpc' = "recv"
    /\ UNCHANGED <<inbox, nframes, nbytes, sample_rate, received, steps, eos_frames, error_log>>
    /\ UNCHANGED <<unitvars, clientvars, poolvars, now, reapervars, handlervars, proxyvars, scorervars, localvars>>

\* line 106: json.loads raises on a text that is not JSON
json_loads_lenient(data) == FALSE
json_loads_raises(data) == ~data.parses

\* set_language, lines 127-130: the tokenizer has no id for the tag of a
\* language the model does not know, and torch.tensor raises on it
Rejects(language) == language \notin Languages

\* lines 103-121 and 135-137: the next message is a text frame. One that does
\* not parse raises in json.loads and is logged and ignored. When set_language
\* raises, lines 107-108 have run and the keys after target_lang are not read.
WsReceiveText ==
    /\ wpc = "recv"
    /\ inbox # <<>>
    /\ Head(inbox).kind = "str"
    /\ inbox' = Tail(inbox)
    /\ LET data == Head(inbox)
       IN IF json_loads_raises(data)
          THEN /\ error_log' = Append(error_log, nframes - Len(inbox'))
               /\ UNCHANGED <<wpc, sample_rate, unitvars, eos_frames>>
          ELSE IF data.target_lang # None /\ Rejects(Val(data.target_lang))
          THEN /\ sample_rate' = IF data.sample_rate # None
                                 THEN Val(data.sample_rate) ELSE sample_rate
               /\ error_log' = Append(error_log, nframes - Len(inbox'))
               /\ UNCHANGED <<wpc, unitvars, eos_frames>>
          ELSE /\ sample_rate' = IF data.sample_rate # None
                                 THEN Val(data.sample_rate) ELSE sample_rate
               /\ IF data.target_lang # None
                  THEN set_language(WsUnit, Val(data.target_lang))
                  ELSE UNCHANGED unitvars
               /\ wpc' = IF data.end_of_stream # None THEN "eos" ELSE "recv"
               /\ eos_frames' = IF data.end_of_stream # None
                                 THEN Append(eos_frames, Val(data.end_of_stream))
                                 ELSE eos_frames
               /\ UNCHANGED error_log
    /\ UNCHANGED <<nframes, nbytes, client_buffer, response, sent, received, buffer_ctx,
                   steps>>
    /\ UNCHANGED <<clientvars, poolvars, now, reapervars, handlervars, proxyvars, scorervars, localvars>>

\* line 122: `if client_buffer:`
ResidualAtThreshold(buffer, rate) == ThresholdReached(buffer, rate)
Residual(buffer, rate) == buffer # <<>>

\* lines 122-130: end_of_stream with audio left in the buffer
WsEosProcess ==
    /\ wpc = "eos"
    /\ Residual(client_buffer, sample_rate)
    /\ process_audio("end_of_stream")
    /\ wpc' = "eos_send"
    /\ UNCHANGED <<inbox, nframes, nbytes, client_buffer, sample_rate, sent, received,
                   buffer_ctx, eos_frames, error_log>>
    /\ UNCHANGED <<clientvars, poolvars, now, reapervars, handlervars, proxyvars, scorervars, localvars>>

\* line 131: the delta of the residual audio goes to the client
WsEosSend ==
    /\ wpc = "eos_send"
    /\ sent' = Append(sent, Val(response))
    /\ response' = None
    /\ wpc' = "eos_clear"
    /\ UNCHANGED <<inbox, nframes, nbytes, client_buffer, sample_rate, received,
                   buffer_ctx, steps, eos_frames, error_log>>
    /\ UNCHANGED <<unitvars, clientvars, poolvars, now, reapervars, handlervars, proxyvars, scorervars, localvars>>

\* lines 132-133: the buffer is emptied and the unit cleared
WsEosClear ==
    /\ \/ wpc = "eos" /\ ~Residual(client_buffer, sample_rate)
       \/ wpc = "eos_clear"
    /\ client_buffer' = <<>>
    /\ buffer_ctx' = <<>>
    /\ text_history' = ClearedText(text_history, WsUnit)
    /\ audio_history' = ClearedAudio(audio_history, WsUnit)
    /\ lang_tag_id' = ClearedLang(lang_tag_id, WsUnit)
    /\ wpc' = "eop"
    /\ UNCHANGED <<inbox, nframes, nbytes, sample_rate, response, sent, received,
                   steps, eos_frames, error_log>>
    /\ UNCHANGED <<matching_threshold, last_call>>
    /\ UNCHANGED <<clientvars, poolvars, now, reapervars, handlervars, proxyvars, scorervars, localvars>>

\* line 134: the end_of_processing frame goes to the client
WsSendEop ==
    /\ wpc = "eop"
    /\ sent' = Append(sent, EndOfProcessing)
    /\ wpc' = "recv"
    /\ UNCHANGED <<inbox, nframes, nbytes, client_buffer, sample_rate, response, received,
                   buffer_ctx, steps, eos_frames, error_log>>
    /\ UNCHANGED <<unitvars, clientvars, poolvars, now, reapervars, handlervars, proxyvars, scorervars, localvars>>

NextWs ==
    \/ \E n \in 1..MaxFrameSamples : ClientSend(BinaryFrame(nbytes, n))
    \/ \E f \in TextFrames : ClientSend(f)
    \/ WsReceiveBytes
    \/ WsProcess
    \/ WsSend
    \/ WsReceiveText
    \/ WsEosProcess
    \/ WsEosSend
    \/ WsEosClear
    \/ WsSendEop

InitWsSpec == Init /\ matching_threshold = <<1, 10>>

SpecWs == InitWsSpec /\ [][NextWs]_vars

\* ------------------------------------- a connection whose unit can raise
\* process_audio raises: _preprocess has stored the window (lines 63-67) when
\* the model fails in _generate. Raised at line 94 the exception leaves the
\* loop (lines 140-141) and the handler returns; raised at line 125 it is
\* caught at line 135, logged, and the loop goes on with lines 131-134 skipped.
WsProcessRaises(site) ==
    /\ \/ /\ site = "chunk"
          /\ wpc = "process"
          /\ wpc' = "closed"
          /\ UNCHANGED error_log
       \/ /\ site = "end_of_stream"
          /\ wpc = "eos"
          /\ Residual(client_buffer, sample_rate)
          /\ wpc' = "recv"
          /\ error_log' = Append(error_log, nframes - Len(inbox))
    /\ audio_history' = [audio_history EXCEPT ![WsUnit] =
           _preprocess(@, WsWaveform(SubmittedBuffer(client_buffer), sample_rate))]
    /\ UNCHANGED <<text_history, lang_tag_id, matching_threshold, last_call>>
    /\ UNCHANGED <<inbox, nframes, nbytes, client_buffer, sample_rate, response, sent,
                   received, buffer_ctx, steps, eos_frames>>
    /\ UNCHANGED <<clientvars, poolvars, now, reapervars, handlervars, proxyvars, scorervars, localvars>>

\* the steps of handle_connection
WsHandlerStep ==
    \/ WsReceiveBytes
    \/ WsProcessRaises("chunk")
    \/ WsProcess
    \/ WsSend
    \/ WsReceiveText
    \/ WsProcessRaises("end_of_stream")
    \/ WsEosProcess
    \/ WsEosSend
    \/ WsEosClear
    \/ WsSendEop

\* the client sends audio and control frames, some with a language the unit
\* rejects
NextWsFail ==
    \/ \E n \in 1..MaxFrameSamples : ClientSend(BinaryFrame(nbytes, n))
    \/ \E f \in {TextFrame(TRUE, Some(8000), Some("xx"), None),
                  TextFrame(TRUE, None, Some("xx"), Some(TRUE)),
                  TextFrame(TRUE, None, None, Some(TRUE))} : ClientSend(f)
    \/ WsHandlerStep

\* the event loop runs the handler whenever it can take a step
SpecWsFail == InitWsSpec /\ [][NextWsFail]_vars /\ WF_vars(WsHandlerStep)

\* ------------------------------------ a connection whose unit is a proxy
\* build_speech_processor gives the connection an HttpProxySpeechProcessor:
\* proxy 1, whose calls are requests of its session to the server of the pool.
\* The client sends audio and, at some point, closes the connection; it sends
\* nothing after that. The close reaches the handler after the frames sent
\* before it.
PooledClientSend(frame) ==
    /\ wpc # "closed"
    /\ \A i \in 1..Len(inbox) : inbox[i].kind # "close"
    /\ ClientSend(frame)

\* lines 94-99 and the proxy's process_chunk (lines 80-85): the POST goes to a
\* handler thread of the server and urlopen blocks the connection's task
PooledCall(h) ==
    /\ wpc = "process"
    /\ ~InFlight(1)
    /\ hpc[h] = "idle"
    /\ hreq' = [hreq EXCEPT ![h] = Some([op |-> "process_chunk", session_id |-> session_id[1]])]
    /\ hpc' = [hpc EXCEPT ![h] = "get"]
    /\ wpc' = "wait"
    /\ UNCHANGED <<inbox, nframes, nbytes, client_buffer, sample_rate, response, sent,
                   received, buffer_ctx, steps, eos_frames, error_log>>
    /\ UNCHANGED <<hunit, unitvars, clientvars, poolvars, now, reapervars, proxyvars,
                   scorervars, localvars>>

\* the response of the POST is back: process_audio returns its strings
PooledReturn ==
    /\ wpc = "wait"
    /\ ~InFlight(1)
    /\ response' = Some(strings_to_json(Val(last_call).output))
    /\ steps' = Append(steps, [site |-> "chunk",
                               buffer |-> SubmittedBuffer(client_buffer),
                               sample_rate |-> sample_rate,
                               language |-> None,
                               ctx |-> buffer_ctx,
                               response |-> strings_to_json(Val(last_call).output)])
    /\ wpc' = "send"
    /\ UNCHANGED <<inbox, nframes, nbytes, client_buffer, sample_rate, sent, received,
                   buffer_ctx, eos_frames, error_log>>
    /\ UNCHANGED <<unitvars, clientvars, poolvars, now, reapervars, handlervars, proxyvars,
                   scorervars, localvars>>

\* lines 138-139: the iteration over the messages ends when the connection is
\* closed, and a send on a closed connection raises ConnectionClosed; the
\* handler logs the disconnection and returns. Nothing is done with the
\* buffer or with the unit.
WsConnectionClosed ==
    /\ \/ wpc = "recv" /\ inbox # <<>> /\ Head(inbox).kind = "close"
       \/ wpc = "send" /\ \E i \in 1..Len(inbox) : inbox[i].kind = "close"
    /\ wpc' = "closed"
    /\ inbox' = <<>>
    /\ response' = None
    /\ UNCHANGED <<nframes, nbytes, client_buffer, sample_rate, sent, received,
                   buffer_ctx, steps, eos_frames, error_log>>
    /\ UNCHANGED <<unitvars, clientvars, poolvars, now, reapervars, handlervars, proxyvars,
                   scorervars, localvars>>

\* time passes without end. Up to MaxTime the clock advances; from then on
\* the recorded times move one unit into the past instead. A time that
\* reaches 0 stands for "MaxTime or more ago", which is past the TTL for the
\* reaper's scan and past the sleep for its wake. The scan (lines 98-104)
\* reads the clock and compares without a pause, so no time passes inside it.
PooledTick ==
    /\ IF now < MaxTime
       THEN /\ now' = now + 1
            /\ UNCHANGED <<_last_access, rsleep>>
       ELSE /\ rpc # "scan"
            /\ now' = now
            /\ _last_access' = [sid \in SessionIds |->
                   IF _last_access[sid] = None THEN None
                   ELSE Some(Max({Val(_last_access[sid]) - 1, 0}))]
            /\ rsleep' = Max({rsleep - 1, 0})
    /\ UNCHANGED <<_sessions, available, rpc, rnow, expired>>
    /\ UNCHANGED <<unitvars, clientvars, handlervars, wsvars, proxyvars, scorervars, localvars>>

NextPooled ==
    \/ \E n \in 1..MaxFrameSamples : PooledClientSend(BinaryFrame(nbytes, n))
    \/ PooledClientSend(Frame("close", <<>>, TRUE, None, None, None))
    \/ WsReceiveBytes
    \/ \E h \in Handlers : PooledCall(h)
    \/ \E h \in Handlers : HandlerGet(h)
    \/ \E h \in Handlers : HandlerProcessChunk(h)
    \/ PooledReturn
    \/ WsSend
    \/ WsConnectionClosed
    \/ ReaperWake
    \/ ReaperScan
    \/ ReaperClose
    \/ ReaperSleep
    \/ PooledTick

\* the reaper thread is scheduled and time goes on
SpecPooled ==
    /\ InitPoolSpec
    /\ [][NextPooled]_vars
    /\ WF_vars(ReaperWake \/ ReaperScan \/ ReaperClose \/ ReaperSleep)
    /\ WF_vars(PooledTick)

\* ------------------------------------------ MWERSegmenterBasedQualityScorer
\* Python's str.strip(), str.find(), `in`, str.split(sep), sep.join(list) and
\* str.replace(old, new) for a one-character old
strip(s) ==
    LET kept == {i \in 1..Len(s) : s[i] \notin {" ", "\t", "\n"}}
    IN IF kept = {} THEN <<>> ELSE SubSeq(s, Min(kept), Max(kept))

find(s, sub) ==
    LET at == {i \in 0..(Len(s) - Len(sub)) : SubSeq(s, i + 1, i + Len(sub)) = sub}
    IN IF at = {} THEN -1 ELSE Min(at)

RECURSIVE split(_, _)
split(s, sep) ==
    LET i == find(s, sep)
    IN IF i = -1 THEN <<s>>
       ELSE <<SubSeq(s, 1, i)>> \o split(SliceFrom(s, i + Len(sep)), sep)

RECURSIVE join(_, _)
join(sep, list) ==
    IF list = <<>> THEN <<>>
    ELSE IF Len(list) = 1 THEN list[1]
    ELSE list[1] \o sep \o join(sep, Tail(list))

RECURSIVE replace(_, _, _)
replace(s, old, new) ==
    IF s = <<>> THEN <<>>
    ELSE (IF Head(s) = old THEN new ELSE <<Head(s)>>) \o replace(Tail(s), old, new)

Separator == <<" ", "#", "#", "#", " ">>

\* the lines of the texts: one with the separator, one with a tab, one with neither
LineSep == <<"a", " ", "#", "#", "#", " ", "b">>
LineTab == <<"a", "\t", "b">>
LinePlain == <<" ", "a", " ", "b">>

\* CJSegmenter.encode of mweralign: the characters of the text, a space written
\* "_" (lines 122-124 undo it: spaces between tokens go, "_" is a space again)
encode(p) == [i \in 1..Len(p) |-> IF p[i] = " " THEN <<"_">> ELSE <<p[i]>>]

\* lines 94-104: the tokenized form of one line (`in` is find(...) # -1)
TokenizedLine(line) ==
    LET encoded(pieces) == [k \in 1..Len(pieces) |-> join(<<" ">>, encode(pieces[k]))]
    IN IF find(line, Separator) # -1
       THEN join(Separator, encoded(split(strip(line), Separator)))
       ELSE IF find(line, <<"\t">>) # -1
       THEN join(Separator, encoded(split(strip(line), <<"\t">>)))
       ELSE join(<<" ">>, encode(strip(line)))

\* _tokenize(text), lines 91-107: the string it returns
_tokenize(text, seg) ==
    IF seg # None
    THEN join(<<"\n">>, [i \in 1..Len(text) |-> TokenizedLine(text[i])])
    ELSE join(<<"\n">>, text)

\* the list object passed to _tokenize, after the call: the lines go to the
\* new list tokenized_text, no element of `text` is assigned
TextAfterTokenizeInPlace(text, seg) ==
    IF seg # None THEN [i \in 1..Len(text) |-> TokenizedLine(text[i])] ELSE text
TextAfterTokenize(text, seg) == text

\* mweralign.align_texts(refs, hypo): the hypothesis re-segmented into n lines.
\* How many lines come back, and where they are cut, is the aligner's
\* business; here the first line takes the whole hypothesis.
align_texts(refs, hypo, n) == join(<<"\n">>, <<hypo>> \o [k \in 1..(n - 1) |-> <<>>])

\* lines 121-124
Decoded(hypos, seg) ==
    IF seg # None
    THEN [k \in 1..Len(hypos) |-> replace(replace(hypos[k], " ", <<>>), "_", <<" ">>)]
    ELSE hypos

\* the lists score() is called with: QualityScoringSample records of one
\* hypothesis and a reference that is missing or has up to MaxRefLines lines
Batches ==
    LET references == {None} \cup
            {Some(r) : r \in SeqsUpTo({LineSep, LineTab, LinePlain}, MaxRefLines) \ {<<>>}}
        scoring_samples ==
            {[audio_name |-> "audio", hypothesis |-> <<"a", " ", "b">>, reference |-> r] :
                r \in references}
    IN SeqsUpTo(scoring_samples, MaxSamples) \ {<<>>}

\* lines 111-131: one pass of the loop, for the sample at spos; the aligner
\* returns n lines. A failed assert raises AssertionError out of score().
\* Line 126 builds a ResegmentedQualityScoringSample.
ScoreSample(n) ==
    /\ score_outcome = "running"
    /\ spos <= Len(samples)
    /\ LET sample == samples[spos]
       IN IF sample.reference = None
          THEN /\ score_outcome' = "AssertionError"
               /\ UNCHANGED <<samples, spos, resegmented_samples>>
          ELSE LET hypo == _tokenize(<<sample.hypothesis>>, segmenter)
                   refs == _tokenize(Val(sample.reference), segmenter)
                   reference == TextAfterTokenize(Val(sample.reference), segmenter)
                   resegmented_hypos == split(align_texts(refs, hypo, n), <<"\n">>)
               IN /\ samples' = [samples EXCEPT ![spos].reference = Some(reference)]
                  /\ IF Len(reference) # Len(resegmented_hypos)
                     THEN /\ score_outcome' = "AssertionError"
                          /\ UNCHANGED <<spos, resegmented_samples>>
                     ELSE /\ resegmented_samples' =
                                 Append(resegmented_samples,
                                        [audio_name |-> sample.audio_name,
                                         hypothesis |-> Decoded(resegmented_hypos, segmenter),
                                         reference |-> reference])
                          /\ spos' = spos + 1
                          /\ UNCHANGED score_outcome
    /\ UNCHANGED <<segmenter, unitvars, clientvars, poolvars, now, reapervars, handlervars,
                   wsvars, proxyvars, localvars>>

\* line 132: the loop is over, _do_score(resegmented_samples) gives the score
ScoreReturn ==
    /\ score_outcome = "running"
    /\ spos > Len(samples)
    /\ score_outcome' = "returned"
    /\ UNCHANGED <<segmenter, samples, spos, resegmented_samples>>
    /\ UNCHANGED <<unitvars, clientvars, poolvars, now, reapervars, handlervars,
                   wsvars, proxyvars, localvars>>

NextScore ==
    \/ \E n \in 1..(MaxRefLines + 1) : ScoreSample(n)
    \/ ScoreReturn

\* score(samples) is called on a scorer (line 110); the segmenter is the one
\* __init__ chose
InitScoreSpec ==
    /\ InitUnits /\ matching_threshold = <<1, 10>>
    /\ InitClient /\ InitPool /\ InitWs /\ InitProxy /\ InitLocals
    /\ segmenter \in {None, Some("CJSegmenter")}
    /\ samples \in Batches
    /\ spos = 1
    /\ resegmented_samples = <<>>
    /\ score_outcome = "running"

SpecScore == InitScoreSpec /\ [][NextScore]_vars

\* ---------------------------------------------------------- pool claims
Keys == SessionKeys(_sessions)
RequestId(h) == Val(hreq[h]).session_id

\* handler h leaves get(): it returns a unit, or queue.Empty is raised
GetReturns(h) == hpc[h] = "get" /\ hpc'[h] # "get"

\* how many times unit u occurs in the queue, and in the session records
InQueue(u) == Cardinality({i \in 1..Len(available) : available[i] = u})
InSessions(u) == Cardinality({i \in 1..Len(_sessions) : _sessions[i].unit = u})

\* C1: whatever get(), close_session() and the reaper have done, every unit
\* is in exactly one place, the queue `available` or the record of exactly
\* one session id, and |available| + |_sessions| = N.
C1_UnitInOnePlace ==
    /\ \A u \in Units : InQueue(u) + InSessions(u) = 1
    /\ Cardinality(Keys) = Len(_sessions)
    /\ Len(available) + Len(_sessions) = PoolSize

\* after a reaper pass: one unit is held, the other one came back to the queue
C1_Witness ==
    /\ Len(_sessions) = 1
    /\ available = <<1>>
    /\ rpc = "sleep"
    /\ rsleep > 0

\* C2: never more than N distinct session ids hold a unit, and a get() with
\* one more distinct session id while N sessions are active raises instead
\* of returning a unit.
C2_Capacity ==
    /\ [](Cardinality(Keys) <= PoolSize)
    /\ [][\A h \in Handlers :
            (GetReturns(h) /\ RequestId(h) \notin Keys /\ Cardinality(Keys) = PoolSize)
            => /\ hpc'[h] = "raised"
               /\ hunit'[h] = None
               /\ SessionKeys(_sessions') = Keys]_vars

\* N sessions are active and the get() of another session id has raised
C2_Witness ==
    /\ Cardinality(Keys) = PoolSize
    /\ \E h \in Handlers :
         /\ hpc[h] = "raised"
         /\ RequestId(h) \notin Keys
         /\ hunit[h] = None

\* C3: a get() with a session id that is already active returns the unit the
\* session is bound to, takes nothing from `available` and changes nothing
\* but that session's last_access, which becomes the current time.
C3_IdempotentGet ==
    [][\A h \in Handlers :
         (GetReturns(h) /\ RequestId(h) \in Keys)
         => /\ hunit'[h] = Some(UnitOf(_sessions, RequestId(h)))
            /\ available' = available
            /\ _sessions' = _sessions
            /\ _last_access' = [_last_access EXCEPT ![RequestId(h)] = Some(now)]]_vars

\* a later request of a session got the unit that holds the session's history
C3_Witness ==
    \E h \in Handlers :
        /\ hpc[h] = "run"
        /\ text_history[Val(hunit[h])] # None
        /\ _last_access[RequestId(h)] = Some(now)
        /\ now > 0
        /\ available # <<>>

\* C4: when a reaper pass is over no session is left whose last get() was
\* more than TTL before the pass's `now`; the reaper's close_session of an
\* expired session removes its record and adds one unit to `available`, and
\* after it a get() with any new session id succeeds.
C4_Eviction ==
    /\ []((rpc = "close" /\ expired = <<>>) =>
            \A sid \in Keys :
                _last_access[sid] # None /\ rnow - Val(_last_access[sid]) <= TTL)
    /\ [][(rpc = "close" /\ expired # <<>> /\ expired' = Tail(expired)
                /\ Head(expired) \in Keys)
            => /\ Head(expired) \notin SessionKeys(_sessions')
               /\ Len(available') = Len(available) + 1
               /\ \A sid \in SessionIds \ SessionKeys(_sessions') :
                      ~GetFails(_sessions', available', sid)]_vars

\* a get() has raised for lack of capacity and the reaper has since evicted a
\* session: a unit is available again
C4_Witness ==
    /\ rpc = "close"
    /\ rnow > TTL
    /\ Len(_sessions) = PoolSize - 1
    /\ available # <<>>
    /\ \E h \in Handlers : hpc[h] = "raised" /\ RequestId(h) \notin Keys

\* C5: a get() with a new session id while `available` is empty raises at
\* once, it is never made to wait, and leaves _sessions, _last_access and
\* available as they were.
C5_ExhaustedGet ==
    /\ [](\A h \in Handlers : hpc[h] = "get" => ENABLED HandlerGet(h))
    /\ [][\A h \in Handlers :
            (GetReturns(h) /\ RequestId(h) \notin Keys /\ available = <<>>)
            => /\ hpc'[h] = "raised"
               /\ UNCHANGED <<_sessions, _last_access, available>>]_vars

\* the get() of a new session id has raised on the empty queue
C5_Witness ==
    /\ available = <<>>
    /\ \E h \in Handlers :
         /\ hpc[h] = "raised"
         /\ RequestId(h) \notin Keys
         /\ _last_access[RequestId(h)] = None

\* ------------------------------------------------- the last process_chunk call
Called == last_call # None
CallGenerated == Val(last_call).generated
CallHistoryPresent == Called /\ Val(last_call).previous # None
CallPrevText == convert_tokens_to_string(Val(Val(last_call).previous))
CallNewText == convert_tokens_to_string(CallGenerated)
CallOut == Val(last_call).output

\* length of the longest common substring of two texts
LcsLen(a, b) ==
    Max({k \in 0..Len(a) : \E i \in 0..Len(a), j \in 0..Len(b) : IsBlock(a, b, i, j, k)})

IsPrefix(p, s) == Len(p) <= Len(s) /\ SubSeq(s, 1, Len(p)) = p

FullOutput(generated_tokens) ==
    [new_tokens |-> generated_tokens,
     new_string |-> convert_tokens_to_string(generated_tokens),
     deleted_tokens |-> <<>>, deleted_string |-> <<>>]

StreamText == IF text_history[StreamUnit] = None THEN <<>>
              ELSE convert_tokens_to_string(Val(text_history[StreamUnit]))

C7_Continuation ==
    (/\ CallHistoryPresent
     /\ CallPrevText # <<>>
     /\ IsPrefix(CallPrevText, CallNewText)
     /\ Len(CallPrevText) * matching_threshold[2] >= matching_threshold[1] * Len(CallNewText))
    => /\ CallOut.deleted_string = <<>>
       /\ CallOut.new_string = SliceFrom(CallNewText, Len(CallPrevText))

\* a continuation whose previous text occurs again inside the appended suffix
C7_Witness ==
    /\ CallHistoryPresent
    /\ CallPrevText # <<>>
    /\ IsPrefix(CallPrevText, CallNewText)
    /\ Len(CallNewText) > Len(CallPrevText)
    /\ Len(CallPrevText) * matching_threshold[2] >= matching_threshold[1] * Len(CallNewText)
    /\ \E j \in 1..Len(CallNewText) : IsBlock(CallPrevText, CallNewText, 0, j, Len(CallPrevText))
    /\ CallOut.deleted_string = <<>>
    /\ CallOut.new_string = SliceFrom(CallNewText, Len(CallPrevText))

\* C8: divergence. With a non-empty previous text and a longest common
\* substring strictly shorter than threshold x len(new text), nothing is
\* deleted and everything generated is new; when the length equals
\* threshold x len(new text) the texts are aligned on the match instead.
C8_Divergence ==
    (CallHistoryPresent /\ CallPrevText # <<>>) =>
        LET L == LcsLen(CallPrevText, CallNewText)
            lhs == L * matching_threshold[2]
            rhs == matching_threshold[1] * Len(CallNewText)
        IN /\ lhs < rhs => CallOut = FullOutput(CallGenerated)
           /\ lhs = rhs =>
                \E i \in 0..Len(CallPrevText), j \in 0..Len(CallNewText) :
                    /\ IsBlock(CallPrevText, CallNewText, i, j, L)
                    /\ CallOut.new_string = SliceFrom(CallNewText, j + L)
                    /\ CallOut.deleted_string = SliceFrom(CallPrevText, i + L)

\* a step below the threshold, with a common substring that is not empty
C8_Witness ==
    /\ CallHistoryPresent
    /\ CallPrevText # <<>>
    /\ LcsLen(CallPrevText, CallNewText) > 0
    /\ LcsLen(CallPrevText, CallNewText) * matching_threshold[2]
           < matching_threshold[1] * Len(CallNewText)
    /\ CallOut = FullOutput(CallGenerated)

\* a step exactly on the threshold, aligned on its match
C8_WitnessBoundary ==
    /\ CallHistoryPresent
    /\ CallPrevText # <<>>
    /\ LcsLen(CallPrevText, CallNewText) > 0
    /\ LcsLen(CallPrevText, CallNewText) * matching_threshold[2]
           = matching_threshold[1] * Len(CallNewText)
    /\ CallOut.new_string # CallNewText

\* C9: first window. When text_history is absent or empty the output is all
\* generated tokens and the full text as new, nothing deleted.
C9_FirstWindow ==
    (Called /\ (Val(last_call).previous = None \/ Val(last_call).previous = Some(<<>>)))
    => CallOut = FullOutput(CallGenerated)

\* a first window after an empty (not absent) history, whose tokens render
\* to the empty text
C9_Witness ==
    /\ Called
    /\ Val(last_call).previous = Some(<<>>)
    /\ CallGenerated # <<>>
    /\ CallNewText = <<>>
    /\ CallOut = FullOutput(CallGenerated)

\* the spec's scenario: "I am Sara" followed by "am Sara. Nice to meet"
SaraHistory == << <<"_", "I">>, <<"_", "a", "m">>, <<"_", "S", "a", "r", "a">> >>
SaraGenerated == << <<"_", "a", "m">>, <<"_", "S", "a", "r", "a">>, <<".">>,
                    <<"_", "N", "i", "c", "e">>, <<"_", "t", "o">>, <<"_", "m", "e", "e", "t">> >>
SaraNewString == <<".", " ", "N", "i", "c", "e", " ", "t", "o", " ", "m", "e", "e", "t">>

\* C10: alignment. With a non-empty previous text and a longest match of
\* length L meeting the threshold, new_string is the new text after the match
\* and deleted_string the previous text after the match; threshold 0.1,
\* "I am Sara" then "am Sara. Nice to meet" deletes nothing and adds
\* ". Nice to meet".
C10_Alignment ==
    /\ (CallHistoryPresent /\ CallPrevText # <<>>) =>
        LET L == LcsLen(CallPrevText, CallNewText)
        IN L * matching_threshold[2] >= matching_threshold[1] * Len(CallNewText) =>
             \E i \in 0..Len(CallPrevText), j \in 0..Len(CallNewText) :
                 /\ IsBlock(CallPrevText, CallNewText, i, j, L)
                 /\ CallOut.new_string = SliceFrom(CallNewText, j + L)
                 /\ CallOut.deleted_string = SliceFrom(CallPrevText, i + L)
    /\ LET sara == _build_incremental_outputs(Some(SaraHistory), <<1, 10>>, SaraGenerated)
       IN sara.deleted_string = <<>> /\ sara.new_string = SaraNewString

\* an aligned step whose match is in the middle of both texts
C10_Witness ==
    /\ CallHistoryPresent
    /\ LET m == find_longest_match(CallPrevText, CallNewText)
       IN /\ m.size > 0
          /\ m.a > 0
          /\ m.b > 0
          /\ m.size * matching_threshold[2] >= matching_threshold[1] * Len(CallNewText)
          /\ CallOut.new_string = SliceFrom(CallNewText, m.b + m.size)
          /\ CallOut.deleted_string = SliceFrom(CallPrevText, m.a + m.size)
          /\ CallOut.new_string # <<>>
          /\ CallOut.deleted_string # <<>>

\* C11: the reconciler is total. Whatever the previous and the new token
\* list are, the output has its four fields, new_tokens and new_string are
\* tails of the generated tokens and of their text, deleted_tokens and
\* deleted_string are tails of the previous tokens and of their text, and
\* nothing is deleted when there is no previous output.
C11_Total ==
    Called =>
        /\ DOMAIN CallOut = {"new_tokens", "new_string", "deleted_tokens", "deleted_string"}
        /\ endswith(CallGenerated, CallOut.new_tokens)
        /\ endswith(CallNewText, CallOut.new_string)
        /\ IF CallHistoryPresent
           THEN /\ endswith(Val(Val(last_call).previous), CallOut.deleted_tokens)
                /\ endswith(CallPrevText, CallOut.deleted_string)
           ELSE CallOut.deleted_tokens = <<>> /\ CallOut.deleted_string = <<>>

\* an empty new text after a previous text that is not empty: all of the
\* previous text is retracted
C11_Witness ==
    /\ CallHistoryPresent
    /\ CallPrevText # <<>>
    /\ CallNewText = <<>>
    /\ CallGenerated # <<>>
    /\ CallOut.deleted_string = CallPrevText
    /\ CallOut.deleted_tokens # <<>>
    /\ CallOut.new_tokens = <<>>

\* the longest common block of a and b that starts earliest in b and, of
\* those, earliest in a
EarliestInNew(a, b) ==
    LET size == LcsLen(a, b)
        j == Min({y \in 0..Len(b) : \E x \in 0..Len(a) : IsBlock(a, b, x, y, size)})
        i == Min({x \in 0..Len(a) : IsBlock(a, b, x, j, size)})
    IN [a |-> i, b |-> j, size |-> size]

\* C29: among the longest common substrings of the previous and the new text
\* the reconciler uses the one that starts earliest in the new text and, of
\* those, earliest in the previous text: when the match meets the threshold
\* new_string and deleted_string are the suffixes after that match.
C29_TieEarliestInNew ==
    (/\ CallHistoryPresent
     /\ Val(Val(last_call).previous) # <<>>
     /\ MeetsThreshold(LcsLen(CallPrevText, CallNewText), matching_threshold, Len(CallNewText)))
    => LET m == EarliestInNew(CallPrevText, CallNewText)
       IN /\ CallOut.new_string = SliceFrom(CallNewText, m.b + m.size)
          /\ CallOut.deleted_string = SliceFrom(CallPrevText, m.a + m.size)

\* the steps at which growing the trailing suffix of tokens breaks the match
\* with string, and the suffix the previous step had
Breaks(string, tokens) ==
    {i \in 1..(Len(tokens) - 1) : ~endswith(string, convert_tokens_to_string(LastN(tokens, i)))}
PreviousStepSuffix(string, tokens) ==
    IF Breaks(string, tokens) = {} THEN tokens
    ELSE SubSeq(tokens, Len(tokens) - Min(Breaks(string, tokens)) + 2, Len(tokens))

\* C30: for a non-empty text, get_ending_tokens_for_string grows the trailing
\* token suffix from one token and returns the suffix of the previous step as
\* soon as the match breaks, the empty suffix when it breaks at the one-token
\* step, and the whole list only if no step breaks it: so are the new_tokens
\* and the deleted_tokens of every aligned window.
C30_PreviousStepSuffix ==
    (/\ CallHistoryPresent
     /\ Val(Val(last_call).previous) # <<>>
     /\ MeetsThreshold(LcsLen(CallPrevText, CallNewText), matching_threshold, Len(CallNewText)))
    => /\ CallOut.new_string # <<>>
          => CallOut.new_tokens = PreviousStepSuffix(CallOut.new_string, CallGenerated)
       /\ CallOut.deleted_string # <<>>
          => CallOut.deleted_tokens =
                 PreviousStepSuffix(CallOut.deleted_string, Val(Val(last_call).previous))

\* ------------------------------------------------------ websocket claims
RECURSIVE ConcatBuffers(_)
ConcatBuffers(ss) == IF ss = <<>> THEN <<>> ELSE Head(ss).buffer \o ConcatBuffers(Tail(ss))

\* the bytes submitted to the unit so far, in order
Submitted == ConcatBuffers(steps)
IsDelta(frame) == DOMAIN frame = {"new", "deleted"}
IsEop(frame) == DOMAIN frame = {"end_of_processing"}
NumDelta(frames) == Cardinality({i \in 1..Len(frames) : IsDelta(frames[i])})
NumEop(frames) == Cardinality({i \in 1..Len(frames) : IsEop(frames[i])})
LastStep == steps[Len(steps)]
LastSent == sent[Len(sent)]
\* handle_connection has submitted the buffer and not yet emptied it
Draining == wpc \in {"send", "eos_send", "eos_clear"}
\* handle_connection takes a step
HandlerMoves == wpc' # wpc \/ (inbox # <<>> /\ inbox' = Tail(inbox))
WsUnitCleared == text_history[WsUnit] = None /\ audio_history[WsUnit] = None
RECURSIVE InboxBytes(_)
InboxBytes(frames) == IF frames = <<>> THEN <<>> ELSE Head(frames).data \o InboxBytes(Tail(frames))

C13_ControlAppliesToLaterAudio ==
    \A k \in 1..Len(steps) :
        \A i \in 1..Len(steps[k].ctx) :
            /\ steps[k].ctx[i].sample_rate = steps[k].sample_rate
            /\ steps[k].ctx[i].language = steps[k].language

C16_InertAfterEndOfStream ==
    [][NumEop(sent) > 0 => steps' = steps /\ NumDelta(sent') = NumDelta(sent)]_vars

\* C17: end_of_processing is sent at most once on a connection, and only for
\* a control frame whose end_of_stream is true.
C17_EndOfProcessingOnce ==
    /\ NumEop(sent) <= 1
    /\ NumEop(sent) <= Cardinality({i \in 1..Len(eos_frames) : eos_frames[i] = TRUE})

\* C18: a text frame that does not parse changes neither the buffer, the
\* declared rate nor the unit, sends nothing and starts no step; the handler
\* is back at the head of its loop and takes the next frame.
C18_UnparsableIgnored ==
    /\ [](wpc = "recv" /\ inbox # <<>> => ENABLED (WsReceiveBytes \/ WsReceiveText))
    /\ [][(wpc = "recv" /\ inbox # <<>> /\ Head(inbox).kind = "str" /\ ~Head(inbox).parses
           /\ inbox' = Tail(inbox))
          => /\ UNCHANGED <<client_buffer, sample_rate, unitvars, sent, steps, response>>
             /\ wpc' = "recv"]_vars

\* the first frame did not parse; a later binary frame was processed at the
\* default rate and its delta sent
C18_Witness ==
    /\ error_log = <<1>>
    /\ Len(steps) = 1
    /\ steps[1].sample_rate = SAMPLE_RATE
    /\ steps[1].language = None
    /\ Len(sent) = 1
    /\ wpc = "recv"

\* handle_connection calls clear() of its unit in this step
WsClears == wpc # "eop" /\ wpc' = "eop"

\* C22: clear() never fails and is idempotent: wherever handle_connection is
\* about to call it the call goes through; from any unit state, with or without
\* history, it leaves no text history and no audio history; a second clear()
\* changes nothing more; and the first process_chunk on a cleared unit is
\* reconciled as a first window: nothing deleted, every generated token new.
C22_ClearIdempotent ==
    /\ []((wpc = "eos_clear" \/ (wpc = "eos" /\ client_buffer = <<>>)) => ENABLED WsEosClear)
    /\ [][WsClears
          => /\ WsUnitCleared'
             /\ ClearedText(text_history', WsUnit) = text_history'
             /\ ClearedAudio(audio_history', WsUnit) = audio_history'
             /\ ClearedLang(lang_tag_id', WsUnit) = lang_tag_id'
             /\ \A g \in TokenLists :
                    _build_incremental_outputs(text_history'[WsUnit], matching_threshold', g)
                        = IncrementalOutput(g, convert_tokens_to_string(g), <<>>, <<>>)]_vars
    /\ [][(WsUnitCleared /\ Len(steps') = Len(steps) + 1)
          => /\ LastStep'.response.deleted = <<>>
             /\ LastStep'.response.new = convert_tokens_to_string(WsTokens)]_vars

\* a window was processed, end_of_stream cleared the unit, and the next window
\* came out whole although the unit had decoded the same tokens before
C22_Witness ==
    /\ Len(steps) = 2
    /\ Len(sent) >= 2
    /\ IsDelta(sent[1])
    /\ IsEop(sent[2])
    /\ steps[2].response.new = convert_tokens_to_string(WsTokens)
    /\ steps[2].response.deleted = <<>>

\* ---------------------------------------------------------- proxy claims
\* close_session(sid) is executed: by the reaper or by a clear request of the id
Released(sid) ==
    \/ rpc = "close" /\ expired # <<>> /\ Head(expired) = sid /\ expired' = Tail(expired)
    \/ \E h \in Handlers : hpc[h] = "close" /\ RequestId(h) = sid /\ hpc'[h] = "idle"

C20_AtMostOneRequest ==
    \A p \in Proxies :
        /\ chunk_requests[p] <= chunk_reads[p]
        /\ chunk_requests[p] <= 1

\* C20 as the code has it: a request is issued only by a read that finds the
\* cache empty; the cache holds the value of the response that filled it; once
\* it is filled it never changes and no further request is issued.
C20_Memoized ==
    /\ [](\A p \in Proxies :
            /\ chunk_requests[p] <= chunk_reads[p]
            /\ _cached_speech_chunk_size[p] # None
               => /\ chunk_requests[p] >= 1
                  /\ _cached_speech_chunk_size[p] = Some(speech_chunk_size))
    /\ [][\A p \in Proxies :
            /\ chunk_requests'[p] # chunk_requests[p]
               => /\ _cached_speech_chunk_size[p] = None
                  /\ chunk_requests'[p] = chunk_requests[p] + 1
                  /\ chunk_reads'[p] = chunk_reads[p] + 1
            /\ _cached_speech_chunk_size[p] # None
               => /\ _cached_speech_chunk_size'[p] = _cached_speech_chunk_size[p]
                  /\ chunk_requests'[p] = chunk_requests[p]]_vars

\* the first request of a proxy failed on the exhausted pool, the second was
\* answered, and a third read was served from the cache
C20_Witness ==
    \E p \in Proxies :
        /\ chunk_requests[p] = 2
        /\ chunk_reads[p] = 3
        /\ _cached_speech_chunk_size[p] = Some(speech_chunk_size)

\* ---------------------------------------------------------- reaper claims
\* the reaper releases the record of sid in this step
ReaperEvicts(sid) ==
    /\ rpc = "close" /\ expired # <<>> /\ Head(expired) = sid /\ expired' = Tail(expired)
    /\ sid \in Keys
    /\ sid \notin SessionKeys(_sessions')

\* C25: the reaper evicts a session only if its last_access is older than TTL
\* at the moment its record is released; a session refreshed by get(), or
\* closed and created again under its id, after the reaper's scan is not
\* evicted in that pass.
C25_EvictsOnlyExpired ==
    [][\A sid \in SessionIds :
         ReaperEvicts(sid)
         => /\ _last_access[sid] # None
            /\ now - Val(_last_access[sid]) > TTL]_vars

\* ------------------------------------------------------ threading claims
\* thread h is inside process_chunk of the unit get() returned to it
Inside(h) == hpc[h] \in {"audio", "text", "update"}

\* C26: nothing serializes the invocation of a unit per session id: get() of
\* a bound id returns the bound unit whoever is using it, and a thread that
\* holds a unit can enter process_chunk at once; so two requests of one
\* session id get the same unit and are inside process_chunk on it together.
C26_NoSerialization ==
    /\ [](\A h \in Threads :
            (hpc[h] = "run" /\ Val(hreq[h]).op = "process_chunk")
            => ENABLED HandlerAudioRead(h))
    /\ [][\A h \in Threads :
            (GetReturns(h) /\ RequestId(h) \in Keys)
            => /\ hpc'[h] = "run"
               /\ hunit'[h] = Some(UnitOf(_sessions, RequestId(h)))]_vars

\* two threads serve requests of one session id on one unit, and both have
\* built their window from the same audio history: one of the two chunks
\* will be lost
C26_Witness ==
    \E h1, h2 \in Threads :
        /\ h1 # h2
        /\ hpc[h1] = "audio" /\ hpc[h2] = "audio"
        /\ RequestId(h1) = RequestId(h2)
        /\ hunit[h1] = hunit[h2]
        /\ hwave[h1] = hwave[h2]
        /\ audio_history[Val(hunit[h1])] # None

\* C27: requests of different session ids are never inside a unit together:
\* two threads that are inside process_chunk on one unit serve the same
\* session id, whatever clear requests release in the meantime.
C27_OneSessionPerUnit ==
    \A h1, h2 \in Threads :
        (Inside(h1) /\ Inside(h2) /\ hunit[h1] = hunit[h2])
        => RequestId(h1) = RequestId(h2)

\* C28: every unit in `available` has empty memory: no text history, no audio
\* history, no language tag.
C28_AvailableUnitsEmpty ==
    \A i \in 1..Len(available) :
        /\ text_history[available[i]] = None
        /\ audio_history[available[i]] = None
        /\ lang_tag_id[available[i]] = None

\* ----------------------------------------------------------- http claims
\* the request handler h serves matched no handler method
Unmatched(h) == hreq[h] # None /\ Val(hreq[h]).op = "none"
\* handler h finishes its request in this step
Completes(h) == hpc[h] # "idle" /\ hpc'[h] = "idle"

\* C21: a request whose path or verb matches no operation is answered with a
\* client-error (4xx) response, and serving it leaves _sessions, _last_access,
\* available and the memory of every unit unchanged.
C21_UnknownRequest ==
    [][\A h \in Handlers :
         (Unmatched(h) /\ hpc'[h] # hpc[h])
         => /\ UNCHANGED <<poolvars, text_history, audio_history, lang_tag_id>>
            /\ Completes(h)
               => /\ ResponseStatus(hpc[h]) # None
                  /\ Val(ResponseStatus(hpc[h])) \in 400..499]_vars

\* --------------------------------------------------------- scorer claims
\* the loop of score() passes the sample at spos in this step
ScoreStep == score_outcome = "running" /\ (spos' # spos \/ score_outcome' # score_outcome)

\* C23: _tokenize never modifies the list passed to it: after score() has
\* tokenized a sample, the sample's reference list (the list handed to
\* _tokenize) equals its value before the call, line by line, for the
\* char-level and the word-level scorer and whatever the lines contain; the
\* re-segmented sample carries the reference lines as they were given.
C23_TokenizeKeepsInput ==
    [][ScoreStep
       => /\ samples' = samples
          /\ Len(resegmented_samples') > Len(resegmented_samples)
             => resegmented_samples'[spos].reference = Val(samples[spos].reference)]_vars

\* a char-level scorer has tokenized a line with the separator, a line with a
\* tab and a line with neither, two of which tokenize to a different string
C23_Witness ==
    /\ segmenter # None
    /\ score_outcome = "returned"
    /\ Len(samples) = 2
    /\ samples[1].reference = Some(<<LineSep, LineTab>>)
    /\ samples[2].reference = Some(<<LinePlain>>)
    /\ TokenizedLine(LineTab) # LineTab
    /\ TokenizedLine(LinePlain) # LinePlain
    /\ resegmented_samples[1].reference = <<LineSep, LineTab>>

\* C24: in a batch whose samples all have references, a mismatch between the
\* number of reference lines of a sample and the number of its re-segmented
\* hypothesis lines raises an assertion failure and is fatal for that sample
\* only: when score() has raised on it, every other sample of the batch has
\* been re-segmented.
C24_MismatchFatalForSampleOnly ==
    /\ [][(ScoreStep /\ spos <= Len(samples) /\ samples[spos].reference # None
           /\ Len(resegmented_samples') = Len(resegmented_samples))
          => score_outcome' = "AssertionError"]_vars
    /\ []((/\ score_outcome = "AssertionError"
           /\ \A k \in 1..Len(samples) : samples[k].reference # None)
          => Len(resegmented_samples) = Len(samples) - 1)

\* ------------------------------------------------------ audio window claims
\* C31: after every process_chunk the audio history of the unit holds at most
\* window_len samples, and they are the last min(total, window_len) samples of
\* all the audio submitted since the last clear(), in order.
C31_SlidingWindow ==
    [][nsteps' = nsteps + 1 =>
        /\ audio_history'[StreamUnit] # None
        /\ Len(Val(audio_history'[StreamUnit])) <= window_len
        /\ Val(audio_history'[StreamUnit]) = LastN(audio_sent', window_len)]_vars

\* a chunk has just been appended to a history that was not empty, and samples
\* that differ from the kept ones were dropped
C31_Witness ==
    /\ nsteps >= 2
    /\ Len(audio_sent) > window_len
    /\ audio_history[StreamUnit] = Some(LastN(audio_sent, window_len))
    /\ SubSeq(audio_sent, 1, window_len) # Val(audio_history[StreamUnit])

\* ------------------------------------------------- failing control frames
\* the handler has just logged "Invalid string message" for a text frame
FrameFailed == Len(error_log') = Len(error_log) + 1

\* C32: a control frame whose handling raises partway is ignored as a whole:
\* the declared rate, the buffer and the unit are as they were before the
\* frame, and the handler is back at the head of its loop.
C32_FailedFrameIgnoredWhole ==
    [][FrameFailed
          => /\ UNCHANGED <<sample_rate, client_buffer>>
             /\ UNCHANGED <<text_history, audio_history, lang_tag_id>>
             /\ wpc' = "recv"]_vars

\* the end_of_processing frame of the end_of_stream being handled has gone out
EopSent == wpc = "recv" /\ sent # <<>> /\ IsEop(LastSent)

PooledReleased ==
    /\ session_id[1] \notin SessionKeys(_sessions)
    /\ Len(available) = PoolSize

\* C33: after the client has disconnected without end_of_stream, the unit of
\* the session eventually returns to `available` (the reaper being scheduled),
\* and no request, processing step or delta is made for the audio left in the
\* buffer.
C33_DisconnectReleases ==
    /\ (wpc = "closed") ~> PooledReleased
    /\ [][wpc' = "closed"
            => /\ UNCHANGED <<steps, sent, client_buffer, hreq>>
               /\ _last_access'[session_id[1]] = _last_access[session_id[1]]
                  \/ (now = MaxTime /\ now' = now)
                  \/ _last_access'[session_id[1]] = None]_vars

\* the connection was closed with audio in the buffer after a step of the
\* stream, and the reaper has since evicted its session
C33_Witness ==
    /\ wpc = "closed"
    /\ client_buffer # <<>>
    /\ Len(steps) = 1
    /\ Len(sent) = 1
    /\ rpc = "close"
    /\ PooledReleased
    /\ _last_access[session_id[1]] = None

\* ------------------------------------------------ applicable retractions
\* C35 as stated: every deleted_string is a suffix of the client's transcript
\* at that moment and of the previous window's text, and new_string is a
\* suffix of the current window's text.
C35_DeletedSuffixOfTranscript ==
    [][nsteps' = nsteps + 1 =>
         LET out == Val(last_call').output
             new == convert_tokens_to_string(Val(text_history'[StreamUnit]))
         IN /\ endswith(transcript, out.deleted_string)
            /\ endswith(StreamText, out.deleted_string)
            /\ endswith(new, out.new_string)]_vars

\* C35: every deleted_string is a suffix of the previous window's text and
\* every new_string a suffix of the current window's text. The deleted_string
\* is a suffix of the transcript, and is retracted from it, at the steps the
\* transcript enters ending with the previous window's text: the second
\* window of a stream and the step after any window emitted whole.
C35_DeletedSuffixOfPrevious ==
    /\ [][nsteps' = nsteps + 1 =>
           LET out == Val(last_call').output
               new == convert_tokens_to_string(Val(text_history'[StreamUnit]))
           IN /\ endswith(StreamText, out.deleted_string)
              /\ endswith(new, out.new_string)
              /\ endswith(transcript, StreamText)
                    => /\ endswith(transcript, out.deleted_string)
                       /\ transcript' =
                              SubSeq(transcript, 1, Len(transcript) - Len(out.deleted_string))
                                  \o out.new_string
              /\ (out.deleted_string = <<>> /\ out.new_string = new)
                    => endswith(transcript', new)]_vars
    /\ [](nsteps = 1 => transcript = StreamText)

\* a third window that retracts a tail of the second and appends a new tail
\* to a transcript longer than the window
C35_Witness ==
    /\ nsteps = 3
    /\ CallHistoryPresent
    /\ CallOut.deleted_string # <<>>
    /\ CallOut.new_string # <<>>
    /\ endswith(CallPrevText, CallOut.deleted_string)
    /\ endswith(transcript, CallOut.new_string)
    /\ Len(transcript) > Len(CallNewText)

====
